---------------------------- MODULE Spec2Model ----------------------------
(***************************************************************************)
(* The real-valued operators of evotorch (src/evotorch/operators/real.py): *)
(* GaussianMutation, OnePointCrossOver, SimulatedBinaryCrossOver and       *)
(* CosynePermutation, as one state machine.                                *)
(*                                                                         *)
(* A tensor is a matrix: a sequence of rows, each a sequence of numbers.   *)
(* Tensors live in a heap of storages, so that "a copy" and "an alias"     *)
(* are different things.  Decision values are integers.  Probabilities,    *)
(* uniform draws and the SBX spread factors are fixed-point numbers with   *)
(* ProbScale units to 1.0, roots rounded down.                             *)
(***************************************************************************)
EXTENDS Integers, Sequences, FiniteSets, TLC

\* ------------------------------------------------------------- bounds
\* A batch holds at most MaxCells values (rows * columns) in at most
\* MaxRows rows (solutions).
MaxCells == 4
MaxRows == 3
\* A parent tensor handed to a cross-over holds at most MaxParentCells values.
MaxParentCells == 6
\* Fixed-point units to 1.0.
ProbScale == 8
\* Storages the heap can hold at once (batch, two parents, one result).
NumSlots == 4

VARIABLES
    problem,    \* the Problem: its bounds [lb, ub]
    heap,       \* storage address -> matrix of values
    batch,      \* address of the caller's SolutionBatch values
    parents,    \* <<>> or <<address of parents1, address of parents2>>
    oper,       \* <<the operator object the last constructor returned>>, or <<>>
    ctor,       \* the last constructor invocation: its arguments and what it raised
    call,       \* the last _do / _do_cross_over invocation: draws, intermediates
    result,     \* 0 or the address of the batch the last invocation returned
    initial     \* the values the caller's batch started with (never written)

vars == <<problem, heap, batch, parents, oper, ctor, call, result, initial>>

\* ------------------------------------------------------------- tensors
NRows(m) == Len(m)
NCols(m) == Len(m[1])
Cells(m) == NRows(m) * NCols(m)

Max2(a, b) == IF a >= b THEN a ELSE b
Min2(a, b) == IF a <= b THEN a ELSE b

\* the sequence <<Op(1), ..., Op(n)>>
Tabulate(n, Op(_)) ==
    LET F[k \in 0..n] == IF k = 0 THEN <<>> ELSE Append(F[k - 1], Op(k))
    IN F[n]

\* the n-by-l matrix whose entry (i, j) is Op(i, j)
Matrix(n, l, Op(_, _)) ==
    Tabulate(n, LAMBDA i : Tabulate(l, LAMBDA j : Op(i, j)))

\* Python's None and a present value.
None == <<>>
Some(x) == <<x>>

\* Arithmetic that only accepts operands of one shape.
BroadcastOKStrict(a, b) == NRows(a) = NRows(b) /\ NCols(a) = NCols(b)

\* torch broadcasting of two 2-D shapes: sizes agree, or one of them is 1.
BroadcastOK(a, b) ==
    /\ (NRows(a) = NRows(b) \/ NRows(a) = 1 \/ NRows(b) = 1)
    /\ (NCols(a) = NCols(b) \/ NCols(a) = 1 \/ NCols(b) = 1)

\* element (i, j) of m seen through broadcasting
Bc(m, i, j) ==
    m[IF NRows(m) = 1 THEN 1 ELSE i][IF NCols(m) = 1 THEN 1 ELSE j]

\* torch.cat([a, b], dim=0)
Cat(a, b) == a \o b

\* ---------------------------------------------------------------- heap
Addr == 1..NumSlots
Allocated(h) == DOMAIN h
Fresh(h) == CHOOSE a \in Addr \ DOMAIN h : \A b \in Addr \ DOMAIN h : a <= b

\* a new storage holding m
Alloc(h, a, m) == [x \in DOMAIN h \cup {a} |-> IF x = a THEN m ELSE h[x]]
\* an in-place write into the storage at a
Store(h, a, m) == [h EXCEPT ![a] = m]
Free(h, as) == [x \in DOMAIN h \ as |-> h[x]]

\* What copy.deepcopy(batch) yields: the address of the copy's storage.  A
\* deep copy owns a new storage; DeepCopyAlias is the shallow copy that
\* shares the original's.
DeepCopyAlias(h, a) == a
DeepCopy(h, a) == Fresh(h)

\* ------------------------------------------------------------- problem
\* Problem._respect_bounds / CopyingOperator._respect_bounds: clip to the
\* declared bounds.
RespectBounds(m) ==
    Matrix(NRows(m), NCols(m), LAMBDA i, j :
        Min2(Max2(m[i][j], problem.lb), problem.ub))

\* the uniform samples in [0, 1) the model draws for masks and sort keys:
\* the smallest and the largest
UniformDraws == {0, ProbScale - 1}
\* the uniform samples the model draws for the SBX spread: one below 0.5,
\* one above
SpreadDraws == {ProbScale \div 4, ProbScale - 1}
\* the standard normal samples the model draws
GaussianDraws == {-1, 1}

MatricesOver(n, l, S) == [1..n -> [1..l -> S]]

\* ------------------------------------------------------------- initial
Shapes == {s \in (1..MaxRows) \X (1..MaxCells) : s[1] * s[2] <= MaxCells}

\* all values distinct, row-major 1, 2, 3, ...
Distinct(n, l) == Matrix(n, l, LAMBDA i, j : (i - 1) * l + j)
\* values repeated within rows and columns
Repeated(n, l) == Matrix(n, l, LAMBDA i, j : ((i - 1) * l + j) \div 2)

InitialBatches == UNION {{Distinct(s[1], s[2]), Repeated(s[1], s[2])} : s \in Shapes}

\* The declared bounds: the smaller initial batches lie within them, the
\* larger ones do not.
Problems == {[lb |-> 1, ub |-> 3]}

NoCall == [op |-> "none"]
NoCtor == [kind |-> "none"]

Init ==
    /\ problem \in Problems
    /\ \E m \in InitialBatches : heap = (1 :> m) /\ initial = m
    /\ batch = 1
    /\ parents = <<>>
    /\ oper = None
    /\ ctor = NoCtor
    /\ call = NoCall
    /\ result = 0

\* ------------------------------------------------------ GaussianMutation
StdevInputs == {-1, 0, 1}
MutationProbabilityInputs == {-1, 0, ProbScale \div 2, ProbScale, ProbScale + 1}

\* A constructor that rejects a probability outside [0, 1] or a negative stdev.
GaussianMutationInitValidated(stdev, mutation_probability) ==
    IF mutation_probability \in 0..ProbScale /\ stdev >= 0
    THEN [raised |-> "none",
          obj |-> Some([kind |-> "GaussianMutation",
                        _mutation_probability |-> mutation_probability,
                        _stdev |-> stdev])]
    ELSE [raised |-> "ValueError", obj |-> None]

\* GaussianMutation.__init__
GaussianMutationInit(stdev, mutation_probability) ==
    [raised |-> "none",
     obj |-> Some([kind |-> "GaussianMutation",
                   _mutation_probability |-> mutation_probability,
                   _stdev |-> stdev])]

NewGaussianMutation ==
    /\ call = NoCall
    /\ parents = <<>>
    /\ \E stdev \in StdevInputs, p \in MutationProbabilityInputs :
         LET r == GaussianMutationInit(stdev, p) IN
         /\ ctor' = [kind |-> "GaussianMutation", stdev |-> stdev,
                     mutation_probability |-> p, raised |-> r.raised]
         /\ oper' = r.obj
    /\ UNCHANGED <<initial, problem, heap, batch, parents, call, result>>

\* mutation_matrix = uniform <= self._mutation_probability
MutationMatrix(u, p) ==
    Matrix(NRows(u), NCols(u), LAMBDA i, j : u[i][j] <= p)

\* the selected positions, in the row-major order of boolean-mask indexing
Selected(mask) ==
    LET l == NCols(mask)
        F[k \in 0..Cells(mask)] ==
            IF k = 0 THEN <<>>
            ELSE LET i == ((k - 1) \div l) + 1
                     j == ((k - 1) % l) + 1
                 IN IF mask[i][j] THEN Append(F[k - 1], <<i, j>>) ELSE F[k - 1]
    IN F[Cells(mask)]

\* position of <<i, j>> in the sequence of selected positions
IndexOf(sel, i, j) == CHOOSE k \in 1..Len(sel) : sel[k] = <<i, j>>

\* data[mutation_matrix] += stdev * gaussian
AddNoise(data, mask, stdev, g) ==
    LET sel == Selected(mask) IN
    Matrix(NRows(data), NCols(data), LAMBDA i, j :
        IF mask[i][j] THEN data[i][j] + stdev * g[IndexOf(sel, i, j)]
        ELSE data[i][j])

\* GaussianMutation._do without the final clipping
GaussianMutationDoUnclipped(data, mask, stdev, g) == AddNoise(data, mask, stdev, g)

\* GaussianMutation._do, on the values of the copy
GaussianMutationDo(data, mask, stdev, g) ==
    RespectBounds(AddNoise(data, mask, stdev, g))

GaussianMutation_do ==
    /\ call = NoCall
    /\ oper # None /\ oper[1].kind = "GaussianMutation"
    /\ LET self == oper[1]
           r == DeepCopy(heap, batch)
           h1 == Alloc(heap, r, heap[batch])
           data == h1[r]
       IN \E u \in MatricesOver(NRows(data), NCols(data), UniformDraws) :
            LET mask == MutationMatrix(u, self._mutation_probability) IN
            \E g \in [1..Len(Selected(mask)) -> GaussianDraws] :
              /\ heap' = Store(h1, r, GaussianMutationDo(data, mask, self._stdev, g))
              /\ result' = r
              /\ call' = [op |-> "GaussianMutation._do", uniform |-> u,
                          mutation_matrix |-> mask, gaussian |-> g,
                          raised |-> "none"]
    /\ UNCHANGED <<initial, problem, batch, parents, oper, ctor>>

\* ----------------------------------------------------------- cross-over
TournamentSizeInputs == {2}
EtaInputs == {1, 2}

\* OnePointCrossOver.__init__
OnePointCrossOverInit(tournament_size) ==
    [raised |-> "none",
     obj |-> Some([kind |-> "OnePointCrossOver",
                   _tournament_size |-> tournament_size])]

NewOnePointCrossOver ==
    /\ call = NoCall
    /\ parents = <<>>
    /\ \E ts \in TournamentSizeInputs :
         LET r == OnePointCrossOverInit(ts) IN
         /\ ctor' = [kind |-> "OnePointCrossOver", tournament_size |-> ts,
                     raised |-> r.raised]
         /\ oper' = r.obj
    /\ UNCHANGED <<initial, problem, heap, batch, parents, call, result>>

\* SimulatedBinaryCrossOver.__init__
SimulatedBinaryCrossOverInit(tournament_size, eta) ==
    [raised |-> "none",
     obj |-> Some([kind |-> "SimulatedBinaryCrossOver",
                   _tournament_size |-> tournament_size,
                   _eta |-> eta])]

NewSimulatedBinaryCrossOver ==
    /\ call = NoCall
    /\ parents = <<>>
    /\ \E ts \in TournamentSizeInputs, eta \in EtaInputs :
         LET r == SimulatedBinaryCrossOverInit(ts, eta) IN
         /\ ctor' = [kind |-> "SimulatedBinaryCrossOver", tournament_size |-> ts,
                     eta |-> eta, raised |-> r.raised]
         /\ oper' = r.obj
    /\ UNCHANGED <<initial, problem, heap, batch, parents, call, result>>

\* The caller's parent selection: two tensors of rows taken from the batch,
\* the second starting one row further on.  Nothing in _do_cross_over stops
\* the caller from handing over tensors of different row counts or widths:
\* p rows of the first w decision variables.
TakeRows(m, p, w, d) ==
    Matrix(p, w, LAMBDA k, j : m[((k - 1 + d) % NRows(m)) + 1][j])

SelectParents ==
    /\ call = NoCall
    /\ parents = <<>>
    /\ oper # None
    /\ oper[1].kind \in {"OnePointCrossOver", "SimulatedBinaryCrossOver"}
    /\ \E p1 \in 1..MaxParentCells, p2 \in 1..MaxParentCells,
          w1 \in 1..NCols(heap[batch]), w2 \in 1..NCols(heap[batch]) :
         /\ p1 * w1 <= MaxParentCells
         /\ p2 * w2 <= MaxParentCells
         /\ LET a1 == Fresh(heap)
                h1 == Alloc(heap, a1, TakeRows(heap[batch], p1, w1, 0))
                a2 == Fresh(h1)
                h2 == Alloc(h1, a2, TakeRows(heap[batch], p2, w2, 1))
            IN /\ heap' = h2
               /\ parents' = <<a1, a2>>
    /\ UNCHANGED <<initial, problem, batch, oper, ctor, call, result>>

\* crossover_point = make_randint((num_pairings, 1), n=solution_length - 1) + 1
\* with the "+ 1" left out
CrossoverPointNoShift(rnd) == rnd
CrossoverPoint(rnd) == Tabulate(Len(rnd), LAMBDA i : rnd[i] + 1)

\* crossover_mask = (gene_indices >= crossover_point).to(dtype); gene indices
\* count from 0
CrossoverMask(num_pairings, solution_length, crossover_point) ==
    Matrix(num_pairings, solution_length, LAMBDA i, j :
        IF (j - 1) >= crossover_point[i] THEN 1 ELSE 0)

\* crossover_mask * a + (1 - crossover_mask) * b, broadcast
MaskedSum(mask, a, b) ==
    LET n == Max2(NRows(mask), Max2(NRows(a), NRows(b)))
        l == Max2(NCols(mask), Max2(NCols(a), NCols(b)))
    IN Matrix(n, l, LAMBDA i, j :
           Bc(mask, i, j) * Bc(a, i, j) + (1 - Bc(mask, i, j)) * Bc(b, i, j))

\* the children tensor of OnePointCrossOver._do_cross_over
OnePointChildren(parents1, parents2, crossover_point) ==
    LET crossover_mask == CrossoverMask(NRows(parents1), NCols(parents1), crossover_point)
        children1 == MaskedSum(crossover_mask, parents1, parents2)
        children2 == MaskedSum(crossover_mask, parents2, parents1)
    IN Cat(children1, children2)

\* Parents of a single decision variable are left out: what
\* make_randint(..., n=0) does with them is not decided in this file.
OnePointCrossOver_do_cross_over ==
    /\ call = NoCall
    /\ parents # <<>>
    /\ oper # None /\ oper[1].kind = "OnePointCrossOver"
    /\ LET parents1 == heap[parents[1]]
           parents2 == heap[parents[2]]
           num_pairings == NRows(parents1)
           solution_length == NCols(parents1)
       IN /\ solution_length >= 2
          /\ \E rnd \in [1..num_pairings -> 0..(solution_length - 2)] :
               LET crossover_point == CrossoverPoint(rnd) IN
               IF BroadcastOK(parents1, parents2)
               THEN LET r == Fresh(heap) IN
                    /\ heap' = Alloc(heap, r,
                                 OnePointChildren(parents1, parents2, crossover_point))
                    /\ result' = r
                    /\ call' = [op |-> "OnePointCrossOver._do_cross_over",
                                crossover_point |-> crossover_point,
                                raised |-> "none"]
               ELSE /\ call' = [op |-> "OnePointCrossOver._do_cross_over",
                                crossover_point |-> crossover_point,
                                raised |-> "RuntimeError"]
                    /\ UNCHANGED <<heap, result>>
    /\ UNCHANGED <<initial, problem, batch, parents, oper, ctor>>

\* the largest y with y^k <= n
RECURSIVE IRootFrom(_, _, _)
IRootFrom(n, k, y) == IF (y + 1) ^ k > n THEN y ELSE IRootFrom(n, k, y + 1)
IRoot(n, k) == IRootFrom(n, k, 0)

\* x.pow(1.0 / k) of a fixed-point x
PowInv(x, k) == IRoot(x * ProbScale ^ (k - 1), k)

\* betas: (2u)^(1/(eta+1)), replaced where u > 0.5 by (1/(2(1-u)))^(1/(eta+1))
Betas(u, eta) ==
    Matrix(NRows(u), NCols(u), LAMBDA i, j :
        IF 2 * u[i][j] > ProbScale
        THEN PowInv((ProbScale * ProbScale) \div (2 * (ProbScale - u[i][j])), eta + 1)
        ELSE PowInv(2 * u[i][j], eta + 1))

\* 0.5 * ((1 + betas) * a + (1 - betas) * b), broadcast
Spread(betas, a, b) ==
    LET n == Max2(NRows(betas), Max2(NRows(a), NRows(b)))
        l == Max2(NCols(betas), Max2(NCols(a), NCols(b)))
    IN Matrix(n, l, LAMBDA i, j :
           ((ProbScale + Bc(betas, i, j)) * Bc(a, i, j)
            + (ProbScale - Bc(betas, i, j)) * Bc(b, i, j)) \div (2 * ProbScale))

\* a second set of children that repeats the first instead of mirroring it
SecondChildrenUnmirrored(betas, parents1, parents2) == Spread(betas, parents1, parents2)
\* children2: the mirror of children1
SecondChildren(betas, parents1, parents2) == Spread(betas, parents2, parents1)

\* the children tensor of SimulatedBinaryCrossOver._do_cross_over
SimulatedBinaryChildren(parents1, parents2, u, eta) ==
    LET betas == Betas(u, eta)
        children1 == Spread(betas, parents1, parents2)
        children2 == SecondChildren(betas, parents1, parents2)
    IN RespectBounds(Cat(children1, children2))

SimulatedBinaryCrossOver_do_cross_over ==
    /\ call = NoCall
    /\ parents # <<>>
    /\ oper # None /\ oper[1].kind = "SimulatedBinaryCrossOver"
    /\ LET parents1 == heap[parents[1]]
           parents2 == heap[parents[2]]
       IN \E u \in MatricesOver(NRows(parents1), NCols(parents1), SpreadDraws) :
            IF BroadcastOK(parents1, parents2)
            THEN LET r == Fresh(heap) IN
                 /\ heap' = Alloc(heap, r,
                              SimulatedBinaryChildren(parents1, parents2, u, oper[1]._eta))
                 /\ result' = r
                 /\ call' = [op |-> "SimulatedBinaryCrossOver._do_cross_over",
                             uniform |-> u, raised |-> "none"]
            ELSE /\ call' = [op |-> "SimulatedBinaryCrossOver._do_cross_over",
                             uniform |-> u, raised |-> "RuntimeError"]
                 /\ UNCHANGED <<heap, result>>
    /\ UNCHANGED <<initial, problem, batch, parents, oper, ctor>>

\* ----------------------------------------------------- CosynePermutation
ObjIndexInputs == {None, Some(0)}

\* problem.normalize_obj_index of a single-objective problem
NormalizeObjIndex(obj_index) == IF obj_index = None THEN 0 ELSE obj_index[1]

\* CosynePermutation.__init__
CosynePermutationInit(obj_index, permute_all) ==
    IF permute_all
    THEN IF obj_index # None
         THEN [raised |-> "ValueError", obj |-> None]
         ELSE [raised |-> "none",
               obj |-> Some([kind |-> "CosynePermutation", _obj_index |-> None,
                             _permute_all |-> TRUE])]
    ELSE [raised |-> "none",
          obj |-> Some([kind |-> "CosynePermutation",
                        _obj_index |-> Some(NormalizeObjIndex(obj_index)),
                        _permute_all |-> FALSE])]

NewCosynePermutation ==
    /\ call = NoCall
    /\ parents = <<>>
    /\ \E obj_index \in ObjIndexInputs, permute_all \in BOOLEAN :
         LET r == CosynePermutationInit(obj_index, permute_all) IN
         /\ ctor' = [kind |-> "CosynePermutation", obj_index |-> obj_index,
                     permute_all |-> permute_all, raised |-> r.raised]
         /\ oper' = r.obj
    /\ UNCHANGED <<initial, problem, heap, batch, parents, call, result>>

\* batch.utility(obj_index, ranking_method="centered"): solution i has rank
\* position k[i] of 0 (worst) .. n-1 (best), its centered rank being
\* k[i]/(n-1) - 0.5.  The model draws the rotations of 0, 1, ..., n-1.
Utilities(n) == {Tabulate(n, LAMBDA i : (i - 1 + s) % n) : s \in 0..(n - 1)}

\* ranks + 0.5, as a fixed-point number
RankPlusHalf(k, n) == IF n = 1 THEN 0 ELSE (k * ProbScale) \div (n - 1)

\* the n of the exponent, taken from the number of solutions
RootDegreeBatchSize(indata) == NRows(indata)
\* n = batch.solution_length
RootDegree(indata) == NCols(indata)

\* prob_permute of the selective mode:
\* (1 - (ranks + 0.5).pow(1 / float(n))).unsqueeze(1).expand(len(batch), solution_length)
ProbPermuteRanked(indata, ranks) ==
    Matrix(NRows(indata), NCols(indata), LAMBDA i, j :
        ProbScale - PowInv(RankPlusHalf(ranks[i], NRows(indata)), RootDegree(indata)))

\* prob_permute = torch.ones_like(indata)
ProbPermuteAll(indata) ==
    Matrix(NRows(indata), NCols(indata), LAMBDA i, j : ProbScale)

\* perm_mask = uniform <= prob_permute
PermMask(u, prob_permute) ==
    Matrix(NRows(u), NCols(u), LAMBDA i, j : u[i][j] <= prob_permute[i][j])

Column(m, j) == Tabulate(NRows(m), LAMBDA i : m[i][j])
CountTrue(col) == Cardinality({i \in 1..Len(col) : col[i]})

\* torch.sort(perm_mask.to(long), descending=True, dim=0)[0].to(bool):
\* in every column the True entries come first
PermMaskSorted(perm_mask) ==
    Matrix(NRows(perm_mask), NCols(perm_mask), LAMBDA i, j :
        i <= CountTrue(Column(perm_mask, j)))

\* perm_rand with the sentinel left out
MaskedRandNoSentinel(rnd, perm_mask) == rnd
\* perm_rand[torch.logical_not(perm_mask)] = 1.0
MaskedRand(rnd, perm_mask) ==
    Matrix(NRows(rnd), NCols(rnd), LAMBDA i, j :
        IF perm_mask[i][j] THEN rnd[i][j] ELSE ProbScale)

\* the orders n rows can come in
RowOrders == [n \in 1..MaxRows |-> Permutations(1..n)]

\* torch.argsort(perm_rand, dim=0): per column, the (0-based) row indices in
\* ascending order of their keys; rows of equal key come in any order
Argsorts(perm_rand) ==
    LET n == NRows(perm_rand)
        l == NCols(perm_rand)
        byColumn == {c \in [1..l -> RowOrders[n]] :
                        \A j \in 1..l : \A a, b \in 1..n :
                            a < b => perm_rand[c[j][a]][j] <= perm_rand[c[j][b]][j]}
    IN {Matrix(n, l, LAMBDA i, j : c[j][i] - 1) : c \in byColumn}

\* the k-th smallest of a column of distinct numbers
KthSmallest(col, k) ==
    LET vals == {col[i] : i \in 1..Len(col)}
    IN CHOOSE x \in vals : Cardinality({y \in vals : y < x}) = k - 1

\* perm_sort with the rows left out of the permutation not moved back
PermSortNoOffset(perm_mask) ==
    Matrix(NRows(perm_mask), NCols(perm_mask), LAMBDA i, j : i - 1)

\* perm_sort: the row indices, those of the rows left out raised by
\* shape[0] + 1, sorted per column
PermSort(perm_mask) ==
    LET n == NRows(perm_mask)
        raised == Matrix(n, NCols(perm_mask), LAMBDA i, j :
                      IF perm_mask[i][j] THEN i - 1 ELSE (i - 1) + n + 1)
    IN Matrix(n, NCols(perm_mask), LAMBDA i, j : KthSmallest(Column(raised, j), i))

\* m[mask]: the entries of m at the True positions of mask, row-major
MaskSelect(m, mask) ==
    LET sel == Selected(mask) IN Tabulate(Len(sel), LAMBDA k : m[sel[k][1]][sel[k][2]])

\* torch.nonzero(mask, as_tuple=True)[1]: the (0-based) columns of the True positions
NonzeroColumns(mask) ==
    LET sel == Selected(mask) IN Tabulate(Len(sel), LAMBDA k : sel[k][2] - 1)

\* data[rows, cols] = data[src, cols], the right-hand side read before any write
IndexAssign(data, rows, cols, src) ==
    Matrix(NRows(data), NCols(data), LAMBDA i, j :
        LET hits == {k \in 1..Len(rows) : rows[k] = i - 1 /\ cols[k] = j - 1}
        IN IF hits = {} THEN data[i][j]
           ELSE LET k == CHOOSE x \in hits : \A y \in hits : y <= x
                IN data[src[k] + 1][j])

\* the values CosynePermutation._do writes into the new batch
CosynePermutationDo(indata, perm_mask, permutations) ==
    LET perm_mask_sorted == PermMaskSorted(perm_mask)
        perm_sort == PermSort(perm_mask)
        permutation_columns == NonzeroColumns(perm_mask_sorted)
        permutation_origin_indices == MaskSelect(perm_sort, perm_mask_sorted)
        permutation_target_indices == MaskSelect(permutations, perm_mask_sorted)
    IN IndexAssign(indata, permutation_origin_indices, permutation_columns,
                   permutation_target_indices)

CosynePermutation_do ==
    /\ call = NoCall
    /\ oper # None /\ oper[1].kind = "CosynePermutation"
    /\ LET self == oper[1]
           indata == heap[batch]
           n == NRows(indata)
           l == NCols(indata)
       IN \E ranks \in (IF self._permute_all THEN {None}
                        ELSE {Some(k) : k \in Utilities(n)}) :
            LET prob_permute == IF self._permute_all THEN ProbPermuteAll(indata)
                                ELSE ProbPermuteRanked(indata, ranks[1])
            IN \E perm_mask \in {PermMask(u, prob_permute) :
                                    u \in MatricesOver(n, l, UniformDraws)} :
               \E permutations \in
                    UNION {Argsorts(MaskedRand(rnd, perm_mask)) :
                              rnd \in MatricesOver(n, l, UniformDraws)} :
                 LET r == Fresh(heap) IN
                 /\ heap' = Alloc(heap, r,
                              CosynePermutationDo(indata, perm_mask, permutations))
                 /\ result' = r
                 /\ call' = [op |-> "CosynePermutation._do", ranks |-> ranks,
                             prob_permute |-> prob_permute, perm_mask |-> perm_mask,
                             raised |-> "none"]
    /\ UNCHANGED <<initial, problem, batch, parents, oper, ctor>>

\* ---------------------------------------------------------------- caller
\* the caller drops the returned batch and the parent tensors
Discard ==
    /\ call # NoCall \/ parents # <<>>
    /\ heap' = Free(heap, Allocated(heap) \ {batch})
    /\ parents' = <<>>
    /\ result' = 0
    /\ call' = NoCall
    /\ UNCHANGED <<initial, problem, batch, oper, ctor>>

\* the caller takes the returned batch as its next generation
Adopt ==
    /\ result # 0
    /\ Cells(heap[result]) <= MaxCells
    /\ heap' = Free(heap, Allocated(heap) \ {result})
    /\ batch' = result
    /\ parents' = <<>>
    /\ result' = 0
    /\ call' = NoCall
    /\ UNCHANGED <<initial, problem, oper, ctor>>

Next ==
    \/ NewGaussianMutation
    \/ NewOnePointCrossOver
    \/ NewSimulatedBinaryCrossOver
    \/ NewCosynePermutation
    \/ SelectParents
    \/ GaussianMutation_do
    \/ OnePointCrossOver_do_cross_over
    \/ SimulatedBinaryCrossOver_do_cross_over
    \/ CosynePermutation_do
    \/ Discard

Spec == Init /\ [][Next]_vars

\* Successive generations of CosynePermutation: each returned batch may
\* become the batch of the next application.
NextCosyne ==
    \/ NewCosynePermutation
    \/ CosynePermutation_do
    \/ Adopt
    \/ Discard

SpecCosyne == Init /\ [][NextCosyne]_vars

\* ------------------------------------------------------------ properties
IsCall(name) == call.op = name /\ call.raised = "none" /\ result # 0

\* how many rows of m taken from the set rows hold v in column j
Count(m, j, rows, v) == Cardinality({i \in rows : m[i][j] = v})

\* the rows in rows hold the same values in column j of a and of b, each
\* value as often
SameValues(a, b, j, rows) ==
    \A v \in {a[i][j] : i \in rows} \cup {b[i][j] : i \in rows} :
        Count(a, j, rows, v) = Count(b, j, rows, v)

SameShape(a, b) == NRows(a) = NRows(b) /\ NCols(a) = NCols(b)

WithinBounds(m) ==
    \A i \in 1..NRows(m) : \A j \in 1..NCols(m) :
        problem.lb <= m[i][j] /\ m[i][j] <= problem.ub

\* C1: every column of every batch CosynePermutation has returned, over any
\* number of successive applications, in either mode, holds exactly the
\* values of the same column of the batch the caller started with, each as
\* often: nothing introduced, removed, duplicated or blended.
C1_ColumnMultisetPreserved ==
    \A a \in Allocated(heap) :
        /\ SameShape(heap[a], initial)
        /\ \A j \in 1..NCols(initial) :
               SameValues(heap[a], initial, j, 1..NRows(initial))

\* C1 happens: a second application rearranges a batch that an earlier
\* application had already rearranged.
C1_Witness ==
    /\ IsCall("CosynePermutation._do")
    /\ heap[batch] # initial
    /\ heap[result] # heap[batch]
    /\ heap[result] # initial

\* C2: a step in which an operator runs leaves every storage that existed
\* before it (the caller's batch, the parent tensors) with the values it
\* had, and the batch it returns sits in a storage that did not exist before.
C2_InputsUntouched ==
    [][(call = NoCall /\ call' # NoCall) =>
          /\ \A a \in Allocated(heap) : a \in Allocated(heap') /\ heap'[a] = heap[a]
          /\ result' # 0 => result' \notin Allocated(heap)]_vars

\* C2 happens: GaussianMutation has returned a batch whose values differ
\* from the caller's.
C2_Witness ==
    /\ IsCall("GaussianMutation._do")
    /\ heap[result] # heap[batch]
    /\ heap[batch] = initial

\* C3: for parents of one shape (P, L), L >= 2, OnePointCrossOver returns 2P
\* rows of length L; every pairing i has a cut point in 1 .. L-1; row i
\* takes parents2[i] at gene indices below the cut and parents1[i] from the
\* cut on, and row P+i is the complementary splice at the same cut.
C3_OnePointSplice ==
    (IsCall("OnePointCrossOver._do_cross_over")
        /\ SameShape(heap[parents[1]], heap[parents[2]])) =>
    LET parents1 == heap[parents[1]]
        parents2 == heap[parents[2]]
        P == NRows(parents1)
        L == NCols(parents1)
        out == heap[result]
        c == call.crossover_point
    IN /\ NRows(out) = 2 * P
       /\ \A i \in 1..P :
            /\ c[i] \in 1..(L - 1)
            /\ Len(out[i]) = L /\ Len(out[P + i]) = L
            /\ \A j \in 1..L :
                 IF j - 1 < c[i]
                 THEN out[i][j] = parents2[i][j] /\ out[P + i][j] = parents1[i][j]
                 ELSE out[i][j] = parents1[i][j] /\ out[P + i][j] = parents2[i][j]

\* C3 happens: with two pairings, the first child of the first pairing is
\* neither of its parents.
C3_Witness ==
    /\ IsCall("OnePointCrossOver._do_cross_over")
    /\ SameShape(heap[parents[1]], heap[parents[2]])
    /\ NRows(heap[parents[1]]) >= 2
    /\ heap[result][1] # heap[parents[1]][1]
    /\ heap[result][1] # heap[parents[2]][1]

\* C4: the batch GaussianMutation returns has the shape of its input and
\* every element of it lies within the problem's bounds, whatever the input
\* (values outside the bounds included), stdev, probability and draws.
C4_MutantWithinBounds ==
    IsCall("GaussianMutation._do") =>
        /\ SameShape(heap[result], heap[batch])
        /\ WithinBounds(heap[result])

\* C4 happens: the input had values outside the bounds and some element
\* was selected for mutation.
C4_Witness ==
    /\ IsCall("GaussianMutation._do")
    /\ ~WithinBounds(heap[batch])
    /\ oper[1]._stdev # 0
    /\ \E i \in 1..NRows(heap[batch]) : \E j \in 1..NCols(heap[batch]) :
           call.mutation_matrix[i][j]

\* C5: with mutation_probability = 0 the returned values equal the input's,
\* for every outcome of the draws; stated for inputs within the bounds, where
\* the final clipping changes nothing.
C5_ZeroProbabilityIsIdentity ==
    (IsCall("GaussianMutation._do")
        /\ oper[1]._mutation_probability = 0
        /\ WithinBounds(heap[batch])) =>
    heap[result] = heap[batch]

\* C6: SimulatedBinaryCrossOver on (parents2, parents1) with the same uniform
\* draws returns the rows of the run on (parents1, parents2) with the first P
\* and the last P rows exchanged, clipping included.
C6_MirrorProperty ==
    (IsCall("SimulatedBinaryCrossOver._do_cross_over")
        /\ SameShape(heap[parents[1]], heap[parents[2]])) =>
    LET P == NRows(heap[parents[1]])
        out == heap[result]
        swapped == SimulatedBinaryChildren(heap[parents[2]], heap[parents[1]],
                                           call.uniform, oper[1]._eta)
    IN /\ NRows(out) = 2 * P
       /\ NRows(swapped) = 2 * P
       /\ \A i \in 1..P : swapped[i] = out[P + i] /\ swapped[P + i] = out[i]

\* C6 happens: two pairings of different parents whose two children differ,
\* one of them stopped at a bound.
C6_Witness ==
    /\ IsCall("SimulatedBinaryCrossOver._do_cross_over")
    /\ SameShape(heap[parents[1]], heap[parents[2]])
    /\ NRows(heap[parents[1]]) >= 2
    /\ heap[result][1] # heap[result][NRows(heap[parents[1]]) + 1]
    /\ LET betas == Betas(call.uniform, oper[1]._eta) IN
       ~WithinBounds(Cat(Spread(betas, heap[parents[1]], heap[parents[2]]),
                         Spread(betas, heap[parents[2]], heap[parents[1]])))

\* C7 as stated: a GaussianMutation object never holds a probability outside
\* [0, 1] or a negative stdev.
C7_InvalidConfigurationRejected ==
    (oper # None /\ oper[1].kind = "GaussianMutation") =>
        /\ oper[1]._mutation_probability \in 0..ProbScale
        /\ oper[1]._stdev >= 0

\* C7, amended: constructing a GaussianMutation never raises; the object it
\* returns holds the stdev and the mutation_probability it was given,
\* whatever they are.
C7_ConstructorStoresArguments ==
    ctor.kind = "GaussianMutation" =>
        /\ ctor.raised = "none"
        /\ oper = Some([kind |-> "GaussianMutation",
                        _mutation_probability |-> ctor.mutation_probability,
                        _stdev |-> ctor.stdev])

\* C7 happens: an object constructed with a probability above 1 and a
\* negative stdev has been applied to a batch.
C7_Witness ==
    /\ ctor.kind = "GaussianMutation"
    /\ ctor.mutation_probability > ProbScale
    /\ ctor.stdev < 0
    /\ IsCall("GaussianMutation._do")
    /\ oper[1]._mutation_probability = ctor.mutation_probability

IsCrossOverCall ==
    call.op \in {"OnePointCrossOver._do_cross_over",
                 "SimulatedBinaryCrossOver._do_cross_over"}

C9_OnlyParticipantsMove ==
    IsCall("CosynePermutation._do") =>
    LET indata == heap[batch]
        out == heap[result]
        N == NRows(indata)
    IN /\ SameShape(out, indata)
       /\ \A j \in 1..NCols(indata) :
            LET taking == {i \in 1..N : call.perm_mask[i][j]} IN
            /\ \A i \in (1..N) \ taking : out[i][j] = indata[i][j]
            /\ SameValues(out, indata, j, taking)
            /\ Cardinality(taking) <= 1 => Column(out, j) = Column(indata, j)

\* C9 happens: a column with a row left out that comes before two rows
\* taking part, which exchanged their values.
C9_Witness ==
    /\ IsCall("CosynePermutation._do")
    /\ NRows(heap[batch]) >= 3
    /\ \E j \in 1..NCols(heap[batch]) :
         /\ ~call.perm_mask[1][j]
         /\ call.perm_mask[2][j] /\ call.perm_mask[3][j]
         /\ heap[result][2][j] # heap[batch][2][j]

IsRankedCall == IsCall("CosynePermutation._do") /\ call.ranks # None

\* C10 as stated: in the selective mode the probability of solution i is
\* 1 - (r_i + 0.5)^(1/N) in every column, N the number of solutions.
C10_ExponentIsBatchSize ==
    IsRankedCall =>
    LET N == NRows(heap[batch]) IN
    \A i \in 1..N : \A j \in 1..NCols(heap[batch]) :
        call.prob_permute[i][j]
            = ProbScale - PowInv(RankPlusHalf(call.ranks[1][i], N), N)

\* C10, amended: in the selective mode the probability of solution i is
\* 1 - (r_i + 0.5)^(1/L) in every column, L the solution length.
C10_ExponentIsSolutionLength ==
    IsRankedCall =>
    LET N == NRows(heap[batch])
        L == NCols(heap[batch])
    IN \A i \in 1..N : \A j \in 1..L :
        call.prob_permute[i][j]
            = ProbScale - PowInv(RankPlusHalf(call.ranks[1][i], N), L)

\* C10 happens: a batch of three solutions of length one, where the
\* probability of the middle-ranked solution is not what the cube root
\* would give.
C10_Witness ==
    /\ IsRankedCall
    /\ NRows(heap[batch]) = 3 /\ NCols(heap[batch]) = 1
    /\ \E i \in 1..3 :
         /\ call.prob_permute[i][1] \notin {0, ProbScale}
         /\ call.prob_permute[i][1]
              # ProbScale - PowInv(RankPlusHalf(call.ranks[1][i], 3), 3)

=============================================================================
